---- MODULE Spec2Model ----
(***************************************************************************)
(* Model of src/wrappers/mod.rs: the PrimitiveType / ElementType tags and  *)
(* their conversions, the ArrayElement and NativeType bindings, and the    *)
(* c_ptr_to_string ownership-transfer helper.                              *)
(***************************************************************************)
EXTENDS Integers, Sequences, FiniteSets, TLC

VARIABLES cur, hist,                                   \* type layer
          phase, pc, ptr, mem, live, str, ret, freed, uaf, \* c_ptr_to_string
          inv, pending, nlog, nret,                        \* NativeType
          impls                                            \* ArrayElement

typeVars == <<cur, hist>>
strVars == <<phase, pc, ptr, mem, live, str, ret, freed, uaf>>
natVars == <<inv, pending, nlog, nret>>
elemVars == <<impls>>
vars == <<typeVars, strVars, natVars, elemVars>>

\* Longest chain of conversions applied to one supplied value.
MaxHist == 3
\* Raw integers -MaxRaw .. MaxRaw are offered to the decoder.
MaxRaw == 20
\* Longest native buffer, terminator excluded.
MaxLen == 3
\* Number of native strings handed to the helper in one run.
MaxCalls == 2
\* Largest length argument passed to a vector constructor.
MaxArgLen == 2
\* Number of ArrayElement implementations written in one run.
MaxImpls == 1

(***************************************************************************)
(* enum PrimitiveType, in declaration order.                               *)
(***************************************************************************)
PrimitiveTypeVariants ==
    << "Invalid", "Pred", "S8", "S16", "S32", "S64", "U8", "U16", "U32",
       "U64", "F16", "F32", "Bf16", "F64", "C64", "C128", "Tuple",
       "OpaqueType", "Token" >>

PrimitiveType == { PrimitiveTypeVariants[i] : i \in DOMAIN PrimitiveTypeVariants }

\* Variant of Discriminant: the explicit values dropped, so the variants are
\* numbered in declaration order.
Discriminant_declaration_order(t) ==
    (CHOOSE i \in DOMAIN PrimitiveTypeVariants : PrimitiveTypeVariants[i] = t) - 1

\* The explicit discriminants of enum PrimitiveType.
Discriminant(t) ==
    CASE t = "Invalid"    -> 0
      [] t = "Pred"       -> 1
      [] t = "S8"         -> 2
      [] t = "S16"        -> 3
      [] t = "S32"        -> 4
      [] t = "S64"        -> 5
      [] t = "U8"         -> 6
      [] t = "U16"        -> 7
      [] t = "U32"        -> 8
      [] t = "U64"        -> 9
      [] t = "F16"        -> 10
      [] t = "F32"        -> 11
      [] t = "Bf16"       -> 16
      [] t = "F64"        -> 12
      [] t = "C64"        -> 15
      [] t = "C128"       -> 18
      [] t = "Tuple"      -> 13
      [] t = "OpaqueType" -> 14
      [] t = "Token"      -> 17

(***************************************************************************)
(* enum ElementType.                                                       *)
(***************************************************************************)
ElementType ==
    { "Pred", "S8", "S16", "S32", "S64", "U8", "U16", "U32", "U64",
      "F16", "F32", "Bf16", "F64", "C64", "C128" }

Ok(v) == <<"Ok", v>>
Err(e) == <<"Err", e>>
NotAnElementType(got) == <<"NotAnElementType", got>>

\* Variant of element_type: the error does not carry the tag passed in.
element_type_wrong_got(self) ==
    IF self \in {"Invalid", "Tuple", "OpaqueType", "Token"}
    THEN Err(NotAnElementType("Invalid"))
    ELSE Ok(self)

\* Variant of element_type: the F32 and F64 arms exchanged.
element_type_float_arms_swapped(self) ==
    IF self \in {"Invalid", "Tuple", "OpaqueType", "Token"}
    THEN Err(NotAnElementType(self))
    ELSE IF self = "F32" THEN Ok("F64")
    ELSE IF self = "F64" THEN Ok("F32")
    ELSE Ok(self)

\* PrimitiveType::element_type
element_type(self) ==
    CASE self = "Pred" -> Ok("Pred")
      [] self = "S8"   -> Ok("S8")
      [] self = "S16"  -> Ok("S16")
      [] self = "S32"  -> Ok("S32")
      [] self = "S64"  -> Ok("S64")
      [] self = "U8"   -> Ok("U8")
      [] self = "U16"  -> Ok("U16")
      [] self = "U32"  -> Ok("U32")
      [] self = "U64"  -> Ok("U64")
      [] self = "F16"  -> Ok("F16")
      [] self = "F32"  -> Ok("F32")
      [] self = "Bf16" -> Ok("Bf16")
      [] self = "F64"  -> Ok("F64")
      [] self = "C64"  -> Ok("C64")
      [] self = "C128" -> Ok("C128")
      [] self \in {"Invalid", "Tuple", "OpaqueType", "Token"} ->
            Err(NotAnElementType(self))

\* Variant of element_size_in_bytes: Bf16 sized like F32.
element_size_bf16_as_f32(self) ==
    IF self \in {"Pred", "S8", "U8"} THEN 1
    ELSE IF self \in {"S16", "U16", "F16"} THEN 2
    ELSE IF self \in {"S32", "U32", "F32", "Bf16"} THEN 4
    ELSE IF self \in {"S64", "U64", "F64", "C64"} THEN 8
    ELSE 16

\* ElementType::element_size_in_bytes
element_size_in_bytes(self) ==
    CASE self = "Pred" -> 1
      [] self = "S8"   -> 1
      [] self = "S16"  -> 2
      [] self = "S32"  -> 4
      [] self = "S64"  -> 8
      [] self = "U8"   -> 1
      [] self = "U16"  -> 2
      [] self = "U32"  -> 4
      [] self = "U64"  -> 8
      [] self = "F16"  -> 2
      [] self = "F32"  -> 4
      [] self = "Bf16" -> 2
      [] self = "F64"  -> 8
      [] self = "C64"  -> 8
      [] self = "C128" -> 16

\* Variant of primitive_type: the Bf16 arm returns F16.
primitive_type_bf16_as_f16(self) == IF self = "Bf16" THEN "F16" ELSE self

\* ElementType::primitive_type
primitive_type(self) ==
    CASE self = "Pred" -> "Pred"
      [] self = "S8"   -> "S8"
      [] self = "S16"  -> "S16"
      [] self = "S32"  -> "S32"
      [] self = "S64"  -> "S64"
      [] self = "U8"   -> "U8"
      [] self = "U16"  -> "U16"
      [] self = "U32"  -> "U32"
      [] self = "U64"  -> "U64"
      [] self = "F16"  -> "F16"
      [] self = "F32"  -> "F32"
      [] self = "Bf16" -> "Bf16"
      [] self = "F64"  -> "F64"
      [] self = "C64"  -> "C64"
      [] self = "C128" -> "C128"

(***************************************************************************)
(* #[derive(FromPrimitive)] on PrimitiveType: from_i64 compares the integer*)
(* with each variant's discriminant in declaration order and yields None   *)
(* when no variant matches.                                                *)
(***************************************************************************)
Some(v) == <<"Some", v>>
None == <<"None">>

RECURSIVE from_i64_arm(_, _)
from_i64_arm(n, i) ==
    IF i > Len(PrimitiveTypeVariants) THEN None
    ELSE IF n = Discriminant(PrimitiveTypeVariants[i])
         THEN Some(PrimitiveTypeVariants[i])
         ELSE from_i64_arm(n, i + 1)

\* Variant of from_i64: an unknown integer falls back to Invalid.
from_i64_default_invalid(n) ==
    IF from_i64_arm(n, 1) = None THEN Some("Invalid") ELSE from_i64_arm(n, 1)

from_i64(n) == from_i64_arm(n, 1)

\* Raw integers the native layer may hand over (i32 range).
RawValues == (-MaxRaw .. MaxRaw) \cup {255, 256, 65536, 2147483647, -2147483647}

(***************************************************************************)
(* c_ptr_to_string.  Bytes are 0..255, a String is a sequence of code      *)
(* points.                                                                 *)
(***************************************************************************)
\* Non-zero bytes the native layer writes: 'a' 'b' 'c', 0xC3, 0xA9, 0xE2, 0xFF.
ByteValues == {97, 98, 99, 195, 169, 226, 255}

RECURSIVE SeqsUpTo(_, _)
SeqsUpTo(S, n) ==
    IF n = 0 THEN {<<>>}
    ELSE LET shorter == SeqsUpTo(S, n - 1)
         IN  shorter \cup {Append(q, x) : q \in shorter, x \in S}

\* Null-terminated native allocations: the last byte is the terminator, an
\* earlier byte may be zero as well.
CBuffers == {Append(q, 0) : q \in SeqsUpTo(ByteValues \cup {0}, MaxLen)}

\* CStr::from_ptr(ptr): the bytes from ptr up to, excluding, the first NUL.
RECURSIVE strlen(_, _)
strlen(m, i) == IF m[i] = 0 THEN i - 1 ELSE strlen(m, i + 1)

from_ptr(m) == SubSeq(m, 1, strlen(m, 1))

\* core::str::lossy: width of the UTF-8 sequence a lead byte starts.
utf8_char_width(b) ==
    IF b < 128 THEN 1
    ELSE IF b \in 194..223 THEN 2
    ELSE IF b \in 224..239 THEN 3
    ELSE IF b \in 240..244 THEN 4
    ELSE 0

safe_get(xs, i) == IF i <= Len(xs) THEN xs[i] ELSE 0

IsCont(b) == b \in 128..191

\* One step of Utf8Chunks at position i: <<bytes consumed, code point>>;
\* an invalid sequence yields U+FFFD and consumes its maximal invalid prefix.
Utf8Step(xs, i) ==
    LET b  == xs[i]
        b2 == safe_get(xs, i + 1)
        b3 == safe_get(xs, i + 2)
        b4 == safe_get(xs, i + 3)
        w  == utf8_char_width(b)
    IN  CASE w = 1 -> <<1, b>>
          [] w = 2 ->
                IF IsCont(b2) THEN <<2, (b - 192) * 64 + (b2 - 128)>>
                ELSE <<1, 65533>>
          [] w = 3 ->
                IF ~ (\/ b = 224 /\ b2 \in 160..191
                      \/ b \in 225..236 /\ b2 \in 128..191
                      \/ b = 237 /\ b2 \in 128..159
                      \/ b \in 238..239 /\ b2 \in 128..191)
                THEN <<1, 65533>>
                ELSE IF ~ IsCont(b3) THEN <<2, 65533>>
                ELSE <<3, (b - 224) * 4096 + (b2 - 128) * 64 + (b3 - 128)>>
          [] w = 4 ->
                IF ~ (\/ b = 240 /\ b2 \in 144..191
                      \/ b \in 241..243 /\ b2 \in 128..191
                      \/ b = 244 /\ b2 \in 128..143)
                THEN <<1, 65533>>
                ELSE IF ~ IsCont(b3) THEN <<2, 65533>>
                ELSE IF ~ IsCont(b4) THEN <<3, 65533>>
                ELSE <<4, (b - 240) * 262144 + (b2 - 128) * 4096
                          + (b3 - 128) * 64 + (b4 - 128)>>
          [] OTHER -> <<1, 65533>>

RECURSIVE lossy_from(_, _)
lossy_from(xs, i) ==
    IF i > Len(xs) THEN <<>>
    ELSE LET st == Utf8Step(xs, i)
         IN  <<st[2]>> \o lossy_from(xs, i + st[1])

\* CStr::to_string_lossy().into_owned(): a host-owned String.
to_string_lossy(xs) == lossy_from(xs, 1)

\* Variant of Body: the release is left out.
BodyNoFree == <<"let_str", "ret">>

\* Variant of Body: the release comes before the copy.
BodyFreeFirst == <<"free", "let_str", "ret">>

\* The statements of the body of c_ptr_to_string, in program order.
Body == <<"let_str", "free", "ret">>

(***************************************************************************)
(* NativeType and native_type!.  A native entry point is <<name, host      *)
(* type>>; a call is [entry, args].                                        *)
(***************************************************************************)
\* Host scalar types bound through ArrayElement / NativeType.
HostTypes == {"i8", "i16", "i32", "i64", "u8", "u16", "u32", "u64", "f32", "f64", "bool"}

\* The identifiers one native_type! invocation passes for host type ty:
\* ($ty, $cst0, $cst1, $cst1c, $cre0, $cre1, $gf).
Invocation(ty) ==
    [ ty    |-> ty,
      cst0  |-> <<"constant_r0", ty>>,
      cst1  |-> <<"constant_r1", ty>>,
      cst1c |-> <<"constant_r1_splat", ty>>,
      cre0  |-> <<"create_r0", ty>>,
      cre1  |-> <<"create_r1", ty>>,
      gf    |-> <<"literal_get_first_element", ty>> ]

NativeOps ==
    {"constant_r0", "constant_r1", "constant_r1c", "create_r0", "create_r1",
     "literal_get_first_element"}

Builders == {"builder1", "builder2"}
HostValues == {"v0", "v1"}
HostPointers == {"ptr1", "ptr2"}
Literals == {"literal1", "literal2"}
XlaOps == {"xla_op1", "xla_op2"}

\* The argument lists each NativeType method accepts.
ArgsOf(op) ==
    CASE op = "constant_r0"  -> {<<b, v>> : b \in Builders, v \in HostValues}
      [] op = "constant_r1"  ->
            {<<b, v, l>> : b \in Builders, v \in HostPointers, l \in 0..MaxArgLen}
      [] op = "constant_r1c" ->
            {<<b, v, l>> : b \in Builders, v \in HostValues, l \in 0..MaxArgLen}
      [] op = "create_r0"    -> {<<v>> : v \in HostValues}
      [] op = "create_r1"    -> {<<v, l>> : v \in HostPointers, l \in 0..MaxArgLen}
      [] op = "literal_get_first_element" -> {<<l>> : l \in Literals}

\* What the native entry point of each kind may hand back.
ResultsOf(name) ==
    CASE name \in {"constant_r0", "constant_r1", "constant_r1_splat"} -> XlaOps
      [] name \in {"create_r0", "create_r1"} -> Literals
      [] name = "literal_get_first_element" -> HostValues

\* The bodies the macro generates; each is the list of native calls it issues,
\* the value of the last call being the method's value.
constant_r0(m, args) == << [entry |-> m.cst0, args |-> <<args[1], args[2]>>] >>

constant_r1(m, args) == << [entry |-> m.cst1, args |-> <<args[1], args[2], args[3]>>] >>

\* Variant of constant_r1c: the splat constructor goes through $cst1.
constant_r1c_via_cst1(m, args) ==
    << [entry |-> m.cst1, args |-> <<args[1], args[2], args[3]>>] >>

constant_r1c(m, args) == << [entry |-> m.cst1c, args |-> <<args[1], args[2], args[3]>>] >>

create_r0(m, args) == << [entry |-> m.cre0, args |-> <<args[1]>>] >>

create_r1(m, args) == << [entry |-> m.cre1, args |-> <<args[1], args[2]>>] >>

literal_get_first_element(m, args) == << [entry |-> m.gf, args |-> <<args[1]>>] >>

\* impl NativeType for $ty
NativeTypeImpl(ty, op, args) ==
    LET m == Invocation(ty) IN
    CASE op = "constant_r0"  -> constant_r0(m, args)
      [] op = "constant_r1"  -> constant_r1(m, args)
      [] op = "constant_r1c" -> constant_r1c(m, args)
      [] op = "create_r0"    -> create_r0(m, args)
      [] op = "create_r1"    -> create_r1(m, args)
      [] op = "literal_get_first_element" -> literal_get_first_element(m, args)

(***************************************************************************)
(* trait ArrayElement: three associated constants, each given by the       *)
(* implementation.                                                         *)
(***************************************************************************)
\* Values an implementation may write for ELEMENT_SIZE_IN_BYTES.
UsizeValues == {1, 2, 4, 8, 16}

ArrayElementImpls ==
    [ty : HostTypes, TY : ElementType, ELEMENT_SIZE_IN_BYTES : UsizeValues, ZERO : {"zero"}]

(***************************************************************************)
(* A caller of the type layer: it supplies a value and applies the         *)
(* conversions to it; hist records <<operation, input, output>>.           *)
(***************************************************************************)
TypeInit ==
    /\ cur = <<"unit">>
    /\ hist = <<>>

StrInit ==
    /\ phase = "idle"
    /\ pc = 0
    /\ ptr = 0
    /\ mem = <<0>>
    /\ live = FALSE
    /\ str = <<"unset">>
    /\ ret = <<"unset">>
    /\ freed = <<>>
    /\ uaf = FALSE

NoInvocation == [ty |-> "none", op |-> "none", args |-> <<>>]

NatInit ==
    /\ inv = NoInvocation
    /\ pending = <<>>
    /\ nlog = <<>>
    /\ nret = <<"unset">>

ElemInit == impls = {}

Init == TypeInit /\ StrInit /\ NatInit /\ ElemInit

SupplyElement ==
    /\ \E e \in ElementType : cur' = <<"ElementType", e>>
    /\ hist' = <<>>
    /\ UNCHANGED <<strVars, natVars, elemVars>>

SupplyTag ==
    /\ \E t \in PrimitiveType : cur' = <<"PrimitiveType", t>>
    /\ hist' = <<>>
    /\ UNCHANGED <<strVars, natVars, elemVars>>

SupplyRaw ==
    /\ \E n \in RawValues : cur' = <<"i32", n>>
    /\ hist' = <<>>
    /\ UNCHANGED <<strVars, natVars, elemVars>>

CallPrimitiveType ==
    /\ cur[1] = "ElementType"
    /\ Len(hist) < MaxHist
    /\ cur' = <<"PrimitiveType", primitive_type(cur[2])>>
    /\ hist' = Append(hist, <<"primitive_type", cur[2], primitive_type(cur[2])>>)
    /\ UNCHANGED <<strVars, natVars, elemVars>>

CallElementType ==
    /\ cur[1] = "PrimitiveType"
    /\ Len(hist) < MaxHist
    /\ LET r == element_type(cur[2]) IN
        /\ cur' = IF r[1] = "Ok" THEN <<"ElementType", r[2]>> ELSE <<"Error", r[2]>>
        /\ hist' = Append(hist, <<"element_type", cur[2], r>>)
    /\ UNCHANGED <<strVars, natVars, elemVars>>

CallElementSize ==
    /\ cur[1] = "ElementType"
    /\ Len(hist) < MaxHist
    /\ cur' = <<"usize", element_size_in_bytes(cur[2])>>
    /\ hist' = Append(hist, <<"element_size_in_bytes", cur[2], element_size_in_bytes(cur[2])>>)
    /\ UNCHANGED <<strVars, natVars, elemVars>>

\* `tag as i32`: the tag's discriminant goes on the wire.
CastToWire ==
    /\ cur[1] = "PrimitiveType"
    /\ Len(hist) < MaxHist
    /\ cur' = <<"i32", Discriminant(cur[2])>>
    /\ hist' = Append(hist, <<"as_i32", cur[2], Discriminant(cur[2])>>)
    /\ UNCHANGED <<strVars, natVars, elemVars>>

\* FromPrimitive::from_i32 widens to from_i64.
DecodeRaw ==
    /\ cur[1] = "i32"
    /\ Len(hist) < MaxHist
    /\ LET r == from_i64(cur[2]) IN
        /\ cur' = IF r[1] = "Some" THEN <<"PrimitiveType", r[2]>> ELSE <<"Rejected">>
        /\ hist' = Append(hist, <<"from_i32", cur[2], r>>)
    /\ UNCHANGED <<strVars, natVars, elemVars>>

TypeNext ==
    \/ SupplyElement
    \/ SupplyTag
    \/ SupplyRaw
    \/ CallPrimitiveType
    \/ CallElementType
    \/ CallElementSize
    \/ CastToWire
    \/ DecodeRaw

TypeSpec == Init /\ [][TypeNext]_vars

(***************************************************************************)
(* c_ptr_to_string, statement by statement.  The native layer returns an   *)
(* owned buffer, the caller passes it to the helper once.                  *)
(***************************************************************************)
NativeReturnsString ==
    /\ phase \in {"idle", "returned"}
    /\ ptr < MaxCalls
    /\ ptr' = ptr + 1
    /\ \E m \in CBuffers : mem' = m
    /\ live' = TRUE
    /\ phase' = "owned"
    /\ str' = <<"unset">>
    /\ ret' = <<"unset">>
    /\ UNCHANGED <<pc, freed, uaf>>
    /\ UNCHANGED <<typeVars, natVars, elemVars>>

CallCPtrToString ==
    /\ phase = "owned"
    /\ phase' = "running"
    /\ pc' = 1
    /\ UNCHANGED <<ptr, mem, live, str, ret, freed, uaf>>
    /\ UNCHANGED <<typeVars, natVars, elemVars>>

AtStmt(name) ==
    /\ phase = "running"
    /\ pc \in DOMAIN Body
    /\ Body[pc] = name

\* What a read through a pointer to released memory may produce.
DanglingRead == {<<>>, <<65533>>, to_string_lossy(from_ptr(mem))}

\* let str = CStr::from_ptr(ptr).to_string_lossy().into_owned();
StmtLetStr ==
    /\ AtStmt("let_str")
    /\ IF live
       THEN /\ str' = <<"String", to_string_lossy(from_ptr(mem))>>
            /\ uaf' = uaf
       ELSE /\ \E g \in DanglingRead : str' = <<"String", g>>
            /\ uaf' = TRUE
    /\ pc' = pc + 1
    /\ UNCHANGED <<phase, ptr, mem, live, ret, freed>>
    /\ UNCHANGED <<typeVars, natVars, elemVars>>

\* libc::free(ptr as *mut libc::c_void);
StmtFree ==
    /\ AtStmt("free")
    /\ freed' = Append(freed, ptr)
    /\ live' = FALSE
    /\ pc' = pc + 1
    /\ UNCHANGED <<phase, ptr, mem, str, ret, uaf>>
    /\ UNCHANGED <<typeVars, natVars, elemVars>>

\* str
StmtRet ==
    /\ AtStmt("ret")
    /\ ret' = str
    /\ phase' = "returned"
    /\ pc' = 0
    /\ UNCHANGED <<ptr, mem, live, str, freed, uaf>>
    /\ UNCHANGED <<typeVars, natVars, elemVars>>

StrNext ==
    \/ NativeReturnsString
    \/ CallCPtrToString
    \/ StmtLetStr
    \/ StmtFree
    \/ StmtRet

StrSpec == Init /\ [][StrNext]_vars

(***************************************************************************)
(* A caller of a NativeType method: the method body issues its native      *)
(* calls one by one and returns the value of the last.                     *)
(***************************************************************************)
InvokeNativeType ==
    /\ pending = <<>>
    /\ inv.op = "none" \/ nret[1] = "ret"
    /\ \E ty \in HostTypes, op \in NativeOps :
        \E args \in ArgsOf(op) :
            /\ inv' = [ty |-> ty, op |-> op, args |-> args]
            /\ pending' = NativeTypeImpl(ty, op, args)
    /\ nlog' = <<>>
    /\ nret' = <<"unset">>
    /\ UNCHANGED <<typeVars, strVars, elemVars>>

\* c_lib::$entry(args): the native runtime runs the entry point.
NativeCall ==
    /\ pending # <<>>
    /\ LET c == Head(pending) IN
        \E r \in ResultsOf(c.entry[1]) :
            nlog' = Append(nlog, [entry |-> c.entry, args |-> c.args, result |-> r])
    /\ pending' = Tail(pending)
    /\ UNCHANGED <<inv, nret>>
    /\ UNCHANGED <<typeVars, strVars, elemVars>>

NativeTypeReturn ==
    /\ inv.op # "none"
    /\ pending = <<>>
    /\ nlog # <<>>
    /\ nret = <<"unset">>
    /\ nret' = <<"ret", nlog[Len(nlog)].result>>
    /\ UNCHANGED <<inv, pending, nlog>>
    /\ UNCHANGED <<typeVars, strVars, elemVars>>

NatNext ==
    \/ InvokeNativeType
    \/ NativeCall
    \/ NativeTypeReturn

NatSpec == Init /\ [][NatNext]_vars

(***************************************************************************)
(* impl ArrayElement for a host type: the implementation states TY,        *)
(* ELEMENT_SIZE_IN_BYTES and ZERO; at most one implementation per type.    *)
(***************************************************************************)
ImplArrayElement ==
    /\ Cardinality(impls) < MaxImpls
    /\ \E i \in ArrayElementImpls :
        /\ \A j \in impls : j.ty # i.ty
        /\ impls' = impls \cup {i}
    /\ UNCHANGED <<typeVars, strVars, natVars>>

ElemNext == ImplArrayElement

ElemSpec == Init /\ [][ElemNext]_vars

(***************************************************************************)
(* Properties of the type layer, checked under TypeSpec.                   *)
(***************************************************************************)
StructuralTags == {"Invalid", "Tuple", "OpaqueType", "Token"}
DataTags == PrimitiveType \ StructuralTags

HistIdx == DOMAIN hist

\* C1: for each of the 15 element types e, primitive_type followed by
\* element_type succeeds and yields Ok(e), the variant that was put in.
C1_RoundTripElement ==
    /\ Cardinality(ElementType) = 15
    /\ \A i \in HistIdx :
        (/\ i + 1 \in HistIdx
         /\ hist[i][1] = "primitive_type"
         /\ hist[i + 1][1] = "element_type")
        => hist[i + 1][3] = Ok(hist[i][2])

C1_Witness ==
    /\ Len(hist) >= 2
    /\ hist[1] = <<"primitive_type", "Bf16", "Bf16">>
    /\ hist[2][1] = "element_type"
    /\ cur = <<"ElementType", "Bf16">>

\* C2: element_type applied to Invalid, Tuple, OpaqueType or Token returns
\* the error NotAnElementType carrying exactly the tag that was passed in.
C2_StructuralRejected ==
    \A i \in HistIdx :
        (hist[i][1] = "element_type" /\ hist[i][2] \in StructuralTags)
        => /\ hist[i][3][1] = "Err"
           /\ hist[i][3] = Err(NotAnElementType(hist[i][2]))

C2_Witness ==
    /\ Len(hist) >= 1
    /\ hist[1] = <<"element_type", "Token", <<"Err", <<"NotAnElementType", "Token">>>>>>
    /\ cur[1] = "Error"

\* C3: for each of the 15 data tags t, element_type succeeds and
\* primitive_type of its result is t; primitive_type never returns a
\* structural or invalid tag.
C3_RoundTripTag ==
    /\ Cardinality(DataTags) = 15
    /\ \A i \in HistIdx :
        /\ (hist[i][1] = "element_type" /\ hist[i][2] \in DataTags)
            => /\ hist[i][3][1] = "Ok"
               /\ (i + 1 \in HistIdx /\ hist[i + 1][1] = "primitive_type")
                    => hist[i + 1][3] = hist[i][2]
        /\ hist[i][1] = "primitive_type" => hist[i][3] \in DataTags

C3_Witness ==
    /\ Len(hist) >= 2
    /\ hist[1] = <<"element_type", "F64", <<"Ok", "F64">>>>
    /\ hist[2][1] = "primitive_type"
    /\ cur = <<"PrimitiveType", "F64">>

\* C4: element_size_in_bytes returns Pred=1, S8=1, S16=2, S32=4, S64=8, U8=1,
\* U16=2, U32=4, U64=8, F16=2, F32=4, Bf16=2, F64=8, C64=8, C128=16.
C4_Sizes ==
    \A i \in HistIdx :
        hist[i][1] = "element_size_in_bytes" =>
            LET e == hist[i][2]
                n == hist[i][3]
            IN  /\ e \in {"Pred", "S8", "U8"} => n = 1
                /\ e \in {"S16", "U16", "F16", "Bf16"} => n = 2
                /\ e \in {"S32", "U32", "F32"} => n = 4
                /\ e \in {"S64", "U64", "F64", "C64"} => n = 8
                /\ e = "C128" => n = 16
                /\ n \in {1, 2, 4, 8, 16}

C4_Witness ==
    /\ Len(hist) >= 1
    /\ hist[Len(hist)] = <<"element_size_in_bytes", "C128", 16>>
    /\ cur = <<"usize", 16>>

\* C5: the discriminants are Pred=1, S8=2, S16=3, S32=4, S64=5, U8=6, U16=7,
\* U32=8, U64=9, F16=10, F64=12, Tuple=13, OpaqueType=14, C64=15, Bf16=16,
\* Token=17, C128=18; the 19 variants have pairwise distinct discriminants,
\* data kinds take exactly 1-12, 15, 16, 18 and structural kinds 13, 14, 17.
C5_Discriminants ==
    /\ \A i \in HistIdx :
        hist[i][1] = "as_i32" =>
            LET t == hist[i][2]
                n == hist[i][3]
            IN  /\ t = "Pred" => n = 1
                /\ t = "S8" => n = 2
                /\ t = "S16" => n = 3
                /\ t = "S32" => n = 4
                /\ t = "S64" => n = 5
                /\ t = "U8" => n = 6
                /\ t = "U16" => n = 7
                /\ t = "U32" => n = 8
                /\ t = "U64" => n = 9
                /\ t = "F16" => n = 10
                /\ t = "F64" => n = 12
                /\ t = "Tuple" => n = 13
                /\ t = "OpaqueType" => n = 14
                /\ t = "C64" => n = 15
                /\ t = "Bf16" => n = 16
                /\ t = "Token" => n = 17
                /\ t = "C128" => n = 18
                /\ t \in DataTags => n \in (1..12) \cup {15, 16, 18}
                /\ t \in {"Tuple", "OpaqueType", "Token"} => n \in {13, 14, 17}
    /\ Cardinality(PrimitiveType) = 19
    /\ \A t1, t2 \in PrimitiveType : t1 # t2 => Discriminant(t1) # Discriminant(t2)
    /\ {Discriminant(t) : t \in DataTags} = (1..12) \cup {15, 16, 18}
    /\ {Discriminant(t) : t \in {"Tuple", "OpaqueType", "Token"}} = {13, 14, 17}

C5_Witness ==
    /\ Len(hist) >= 1
    /\ hist[Len(hist)] = <<"as_i32", "Bf16", 16>>
    /\ cur = <<"i32", 16>>

\* C6: decoding a raw integer yields a variant exactly when the integer is
\* one of the 19 discriminants, and then the variant with that discriminant;
\* any other integer is rejected, never mapped to Invalid or another variant.
C6_DecodeRejectsUnknown ==
    \A i \in HistIdx :
        hist[i][1] = "from_i32" =>
            LET n == hist[i][2]
                r == hist[i][3]
            IN  /\ n \in 0..18 => (r[1] = "Some" /\ Discriminant(r[2]) = n)
                /\ n \notin 0..18 => (r = None /\ cur[1] # "PrimitiveType")

C6_Witness ==
    /\ Len(hist) = 1
    /\ hist[1] = <<"from_i32", 19, <<"None">>>>
    /\ cur = <<"Rejected">>

(***************************************************************************)
(* Properties of c_ptr_to_string, checked under StrSpec.                   *)
(***************************************************************************)
FreeCount(p) == Cardinality({i \in DOMAIN freed : freed[i] = p})

\* Index of the first NUL of the current native buffer.
FirstNul == CHOOSE k \in DOMAIN mem : mem[k] = 0 /\ \A j \in 1..(k - 1) : mem[j] # 0

\* C7: each call issues exactly one libc::free of its pointer, never zero and
\* never more than one, whatever the bytes decode to, and returns the text of
\* the bytes before the terminator ("abc\0" gives "abc").
C7_ExactlyOneFree ==
    /\ \A i \in DOMAIN freed : freed[i] \in 1..ptr
    /\ \A p \in 1..ptr : FreeCount(p) <= 1
    /\ \A p \in 1..(ptr - 1) : FreeCount(p) = 1
    /\ phase = "returned" =>
        /\ FreeCount(ptr) = 1
        /\ ret[1] = "String"
        /\ LET bytes == SubSeq(mem, 1, FirstNul - 1)
               text == ret[2]
           IN  /\ mem = <<97, 98, 99, 0>> => text = <<97, 98, 99>>
               /\ (\A i \in DOMAIN bytes : bytes[i] < 128) => text = bytes
               /\ bytes = <<195, 169>> => text = <<233>>
               /\ Len(text) <= Len(bytes)
               /\ (bytes # <<>>) => (text # <<>>)
               /\ \A i \in DOMAIN text : text[i] # 0

C7_Witness ==
    /\ phase = "returned"
    /\ mem = <<97, 98, 99, 0>>
    /\ ret = <<"String", <<97, 98, 99>>>>
    /\ freed = <<1, 2>>

\* C10: the copy into host-owned memory is complete before the native
\* allocation is released, the native buffer is never read after the
\* release, and the returned String is the host-owned copy.
C10_CopyBeforeRelease ==
    /\ ~ uaf
    /\ (phase \in {"running", "returned"} /\ ~ live) =>
            str = <<"String", to_string_lossy(from_ptr(mem))>>
    /\ phase = "returned" => (~ live /\ ret = str /\ ret[1] = "String")

C10_Witness ==
    /\ phase = "returned"
    /\ ~ live
    /\ ptr \in {freed[i] : i \in DOMAIN freed}
    /\ mem = <<255, 0, 98, 0>>
    /\ ret = <<"String", <<65533>>>>

(***************************************************************************)
(* Properties of the NativeType bindings, checked under NatSpec.           *)
(***************************************************************************)
\* The native entry point name that belongs to each method's slot.
SlotName(op) ==
    CASE op = "constant_r0"  -> "constant_r0"
      [] op = "constant_r1"  -> "constant_r1"
      [] op = "constant_r1c" -> "constant_r1_splat"
      [] op = "create_r0"    -> "create_r0"
      [] op = "create_r1"    -> "create_r1"
      [] op = "literal_get_first_element" -> "literal_get_first_element"

\* C9: every NativeType method issues exactly one native call, to the entry
\* point of its own slot for its host type, with its arguments unchanged, and
\* returns the native result unchanged; constant_r1c never calls the
\* element-wise entry point of constant_r1.
C9_OneCallOwnSlot ==
    inv.op # "none" =>
        /\ Len(nlog) + Len(pending) = 1
        /\ \A i \in DOMAIN nlog :
            /\ nlog[i].entry = <<SlotName(inv.op), inv.ty>>
            /\ Len(nlog[i].args) = Len(inv.args)
            /\ nlog[i].args = inv.args
            /\ inv.op = "constant_r1c" => nlog[i].entry # Invocation(inv.ty).cst1
        /\ nret[1] = "ret" => (Len(nlog) = 1 /\ nret[2] = nlog[1].result)

C9_Witness ==
    /\ inv = [ty |-> "f32", op |-> "constant_r1c", args |-> <<"builder2", "v1", 2>>]
    /\ Len(nlog) = 1
    /\ nlog[1].entry = <<"constant_r1_splat", "f32">>
    /\ nret = <<"ret", "xla_op2">>

(***************************************************************************)
(* Properties of the ArrayElement bindings, checked under ElemSpec.        *)
(***************************************************************************)
\* C8: every ArrayElement implementation has ELEMENT_SIZE_IN_BYTES equal to
\* element_size_in_bytes of its TY; no implementation can state another size.
C8_SizeAgreesWithTY ==
    \A i \in impls : i.ELEMENT_SIZE_IN_BYTES = element_size_in_bytes(i.TY)
====
